---- MODULE Spec2Model ----
(***************************************************************************)
(* FinRate-PH: review fetch (scraper.py), persistence (utils.py) and the   *)
(* presentation shell (gui.py) as a state machine.                         *)
(*                                                                         *)
(*   SpecScraper : one activation of get_app_reviews against a paginator   *)
(*                 that may raise on any page request.                     *)
(*   Spec        : the AppReviewGUI session: UI-thread handlers (atomic),  *)
(*                 fetch worker threads (one step per shared access) and   *)
(*                 the wait_for_thread polling callback.                   *)
(*   SpecTrack   : the handlers that track apps (add, remove, select,    *)
(*                 output directory) with their full inputs.               *)
(*   SpecSession : the session of Spec with apps removed and added again *)
(*                 between and during fetches, and fair polling.           *)
(*   SpecAdd     : one call of add_app_name per tracking state and input.  *)
(*   SpecSingle  : fetches and single-app plots in a session in which two  *)
(*                 app ids can be tracked under one name.                  *)
(*   SpecRace    : fetch actions interleaved with adds and removes, with   *)
(*                 a record of what each action started from and fetched.  *)
(*   SpecPlot    : one call of create_plot or create_combined_plot         *)
(*                 (plotting.py) per review set and plot kind.             *)
(***************************************************************************)
EXTENDS Integers, Sequences, FiniteSets, TLC

VARIABLES
    frame,          \* activation record of the one call under study
                    \* (SpecScraper, SpecAdd, SpecPlot), the option picked
                    \* (SpecSingle), the latest fetch action (SpecRace)
    app_ids,        \* self.app_ids
    app_names,      \* self.app_names : app_id -> entered name
    all_app_data,   \* self.all_app_data : app_id -> review set
    output_dir,     \* self.output_dir
    tree,           \* rows of self.app_id_tree : <<app_id, app_name>>
    combo_values,   \* self.single_app_combo["values"]
    combo_text,     \* self.single_app_combo.get()
    max_entry,      \* text of self.max_reviews_entry
    fetch_button,   \* state of self.fetch_button
    chart,          \* what self.ax shows
    threads,        \* thread slot -> the Thread object in it ("free" if none)
    polls,          \* threads for which a wait_for_thread callback is scheduled
    dirs,           \* directories that exist on disk
    files,          \* <<dir, app_id>> -> rows of <dir>/<app_id>_reviews.csv
    msg,            \* the messageboxes shown by the last step, in order
    fetched         \* history: app_id -> rows of the last non-empty set
                    \* get_app_reviews returned for it

vars == <<frame, app_ids, app_names, all_app_data, output_dir, tree,
          combo_values, combo_text, max_entry, fetch_button, chart,
          threads, polls, dirs, files, msg, fetched>>

gui_vars == <<app_ids, app_names, all_app_data, output_dir, tree,
              combo_values, combo_text, max_entry, fetch_button,
              chart, threads, polls, dirs, files, msg, fetched>>

-----------------------------------------------------------------------------
(* Bounds of the model *)

MaxCap == 3          \* numeric caps 0..MaxCap are tried in SpecScraper
MaxThreads == 2      \* Thread objects that can exist at the same time
MaxNames == 2        \* names in one comma-separated add_app_name input
MaxRaises == 4       \* page requests whose outcome a worker's schedule fixes

MaxRows == 3         \* reviews in a set handed to create_plot

(* Program constants *)

retries == 3
window == 30

-----------------------------------------------------------------------------
(* The upstream provider: google_play_scraper.reviews / search              *)

Apps == {"com.a", "com.b", "com.c", "com.d"}

Raw(c, d, s) == [content |-> c, at |-> d, score |-> s]

\* The chain of pages the provider holds for each app: com.a has two pages,
\* com.b one page, com.d three pages, any other app one empty page (an app
\* without reviews). A review is dated <<year, month, day>>; pages come in
\* relevance order, not date order.
Provider(app_id) ==
    CASE app_id = "com.a" -> << <<Raw("a1", <<2024, 2, 9>>, 5),
                                  Raw("a2", <<2024, 1, 20>>, 1)>>,
                                <<Raw("a3", <<2024, 1, 3>>, 4)>> >>
      [] app_id = "com.b" -> << <<Raw("b1", <<2024, 1, 7>>, 3),
                                  Raw("b2", <<2024, 3, 1>>, 2)>> >>
      [] app_id = "com.d" -> << <<Raw("d1", <<2023, 12, 30>>, 2)>>,
                                <<Raw("d2", <<2024, 1, 2>>, 5),
                                  Raw("d3", <<2024, 1, 2>>, 3)>>,
                                <<Raw("d4", <<2023, 11, 11>>, 1)>> >>
      [] OTHER            -> << <<>> >>

\* Python None for a max_reviews / continuation_token argument.
None == <<>>
Some(x) == <<x>>

NoToken == [obj |-> FALSE, token |-> 0]
\* A ContinuationToken object; token = 0 stands for .token is None, k > 0
\* is the cursor of page k.
Token(k) == [obj |-> TRUE, token |-> k]

\* reviews(app_id, count=200, continuation_token=tok) when it does not raise:
\* <<result, continuation_token>>.
reviews(app_id, tok) ==
    LET pages == Provider(app_id)
        k == IF tok.obj THEN tok.token ELSE 1
    IN  IF tok.obj /\ tok.token = 0
        THEN <<<<>>, tok>>
        ELSE <<pages[k], IF k < Len(pages) THEN Token(k + 1) ELSE Token(0)>>

-----------------------------------------------------------------------------
(* scraper.py: get_app_reviews                                              *)

Review(app_id, review_data) ==
    [app_id        |-> app_id,
     review_text   |-> review_data.content,
     review_date   |-> review_data.at,
     review_rating |-> review_data.score]

\* State of the activation on entry (lines 46-49) and at the first attempt.
EnterFrame(app_id, max_reviews) ==
    [app_id             |-> app_id,
     max_reviews        |-> max_reviews,
     all_reviews        |-> <<>>,
     continuation_token |-> NoToken,
     review_count       |-> 0,
     attempt            |-> 0,
     pc                 |-> "call",
     result             |-> <<>>,
     requests           |-> 0,
     sent               |-> <<>>,
     failed             |-> 0,
     starts             |-> <<[all_reviews |-> <<>>, review_count |-> 0,
                               continuation_token |-> NoToken]>>]

\* The cap test of line 73.
CapReached(max_reviews, review_count) ==
    max_reviews # None /\ review_count >= max_reviews[1]

\* The for loop over one page (lines 63-74), from record i on.
RECURSIVE ForRecords(_, _, _)
ForRecords(f, result, i) ==
    IF i > Len(result)
    THEN f
    ELSE LET g == [f EXCEPT
                     !.all_reviews = Append(@, Review(f.app_id, result[i])),
                     !.review_count = @ + 1]
         IN  IF CapReached(g.max_reviews, g.review_count)
             THEN [g EXCEPT !.pc = "returned", !.result = g.all_reviews]
             ELSE ForRecords(g, result, i + 1)

LastPage_Always(continuation_token) == TRUE

\* The test of line 76.
LastPage(continuation_token) == continuation_token.token = 0

\* One pass of the while loop when reviews() returns (lines 54-81); sent is
\* the history of the continuation tokens passed to reviews().
PageStep(f) ==
    LET r == reviews(f.app_id, f.continuation_token)
        g == ForRecords([f EXCEPT !.continuation_token = r[2],
                                  !.requests = @ + 1,
                                  !.sent = Append(@, f.continuation_token)],
                        r[1], 1)
    IN  IF g.pc = "returned"
        THEN g
        ELSE IF LastPage(g.continuation_token)
             THEN [g EXCEPT !.pc = "returned", !.result = g.all_reviews]
             ELSE g

ExhaustedResult_Partial(f) == f.all_reviews

\* What the handler returns once the attempts are used up (line 87).
ExhaustedResult(f) == <<>>

\* The except clause when reviews() raises (lines 83-88).
ExceptStep(f) ==
    LET g == [f EXCEPT !.requests = @ + 1, !.failed = @ + 1,
                       !.sent = Append(@, f.continuation_token)]
    IN  IF g.attempt = retries - 1
        THEN [g EXCEPT !.pc = "returned", !.result = ExhaustedResult(g)]
        ELSE [g EXCEPT !.attempt = @ + 1,
                       !.starts = Append(@,
                           [all_reviews |-> g.all_reviews,
                            review_count |-> g.review_count,
                            continuation_token |-> g.continuation_token])]

\* The whole call under a schedule of page-request outcomes: raises[i] says
\* whether the i-th request raises; requests beyond the schedule succeed.
RECURSIVE RunFrame(_, _)
RunFrame(f, raises) ==
    IF f.pc = "returned"
    THEN f
    ELSE IF raises # <<>> /\ Head(raises)
         THEN RunFrame(ExceptStep(f), Tail(raises))
         ELSE RunFrame(PageStep(f), IF raises = <<>> THEN <<>> ELSE Tail(raises))

get_app_reviews(app_id, max_reviews, raises) ==
    RunFrame(EnterFrame(app_id, max_reviews), raises)

-----------------------------------------------------------------------------
(* Python containers                                                        *)

EmptyMap == [k \in {} |-> <<>>]
MapPut(m, k, v) == [x \in DOMAIN m \cup {k} |-> IF x = k THEN v ELSE m[x]]

\* A dict as the sequence of its items in insertion order.
DictKeys(d) == {d[i].k : i \in DOMAIN d}
DictGet(d, k) == d[CHOOSE i \in DOMAIN d : d[i].k = k].v
DictSet(d, k, v) ==
    IF k \in DictKeys(d)
    THEN [i \in DOMAIN d |-> IF d[i].k = k THEN [k |-> k, v |-> v] ELSE d[i]]
    ELSE Append(d, [k |-> k, v |-> v])
DictDel_Keep(d, k) == d
DictDel(d, k) == SelectSeq(d, LAMBDA e : e.k # k)

InList_Never(x, l) == FALSE
InList(x, l) == \E i \in DOMAIN l : l[i] = x
\* list.remove(x): drops the first occurrence.
ListRemove(l, x) ==
    LET j == CHOOSE i \in DOMAIN l : l[i] = x /\ \A h \in 1..(i - 1) : l[h] # x
    IN  [i \in 1..(Len(l) - 1) |-> IF i < j THEN l[i] ELSE l[i + 1]]
DeleteAt(l, j) == [i \in 1..(Len(l) - 1) |-> IF i < j THEN l[i] ELSE l[i + 1]]

Box(kind, text, arg) == [box |-> kind, text |-> text, arg |-> arg]

-----------------------------------------------------------------------------
(* int(max_reviews_input) of gui.py line 277                                *)

Digits == <<"0", "1", "2", "3", "4", "5", "6", "7", "8", "9">>
IsDigit(c) == \E i \in DOMAIN Digits : Digits[i] = c
DigitVal(c) == (CHOOSE i \in DOMAIN Digits : Digits[i] = c) - 1

RECURSIVE Strip(_)
Strip(t) ==
    IF t = <<>> THEN t
    ELSE IF Head(t) = " " THEN Strip(Tail(t))
    ELSE IF t[Len(t)] = " " THEN Strip(SubSeq(t, 1, Len(t) - 1))
    ELSE t

RECURSIVE DigitsVal(_, _)
DigitsVal(t, acc) ==
    IF t = <<>> THEN acc ELSE DigitsVal(Tail(t), 10 * acc + DigitVal(Head(t)))

\* int(text): [err |-> TRUE] for a ValueError, else the value.
int(text) ==
    LET s == Strip(text)
        signed == s # <<>> /\ Head(s) \in {"-", "+"}
        body == IF signed THEN Tail(s) ELSE s
    IN  IF body = <<>> \/ \E i \in DOMAIN body : ~IsDigit(body[i])
        THEN [err |-> TRUE, v |-> 0]
        ELSE [err |-> FALSE,
              v |-> IF signed /\ Head(s) = "-"
                    THEN 0 - DigitsVal(body, 0) ELSE DigitsVal(body, 0)]

MaxReviewsPerApp_Lenient(text) ==
    IF text = <<>> \/ int(text).err
    THEN [err |-> FALSE, v |-> None]
    ELSE [err |-> FALSE, v |-> Some(int(text).v)]

\* Lines 274-281: [err, v] with v the max_reviews_per_app argument.
MaxReviewsPerApp(text) ==
    IF text = <<>>
    THEN [err |-> FALSE, v |-> None]
    ELSE LET n == int(text)
         IN  IF n.err THEN [err |-> TRUE, v |-> None]
             ELSE [err |-> FALSE, v |-> Some(n.v)]

-----------------------------------------------------------------------------
(* scraper.py: search_app, and the choose_app_id dialog                     *)

Names == {"A", "B", "Z"}
Hit(title, appId) == [title |-> title, appId |-> appId]

\* search(app_name, n_hits=5) when it does not raise.
search(app_name) ==
    CASE app_name = "A" -> <<Hit("A one", "com.a"), Hit("A two", "com.b")>>
      [] app_name = "B" -> <<Hit("B one", "com.b")>>
      [] OTHER          -> <<>>

search_app_Unguarded(app_name, raised) ==
    IF search(app_name) # <<>> THEN search(app_name) ELSE <<>>

\* search_app (lines 20-25): the results, None when there are none or when
\* search raised.
search_app(app_name, raised) ==
    IF raised THEN None
    ELSE IF search(app_name) # <<>> THEN search(app_name) ELSE None

\* One item of the comma-separated input with what happens while it is
\* processed: whether search raises and which row of the dialog the user
\* picks (0: the dialog is closed without a selection).
Item(name, raised, pick) == [name |-> name, raised |-> raised, pick |-> pick]
Items ==
    {Item("A", FALSE, 1), Item("A", FALSE, 2), Item("A", FALSE, 0),
     Item("A", TRUE, 0), Item("B", FALSE, 1), Item("Z", FALSE, 0),
     Item("", FALSE, 0)}
AddInputs ==
    UNION {[1..n -> Items] : n \in 0..MaxNames}

\* choose_app_id (lines 192-212).
choose_app_id(app_titles, ids, pick) ==
    IF pick \in DOMAIN ids THEN Some(ids[pick]) ELSE None

-----------------------------------------------------------------------------
(* utils.py: save_reviews_to_csv, and pandas                                *)

\* pd.to_datetime on the datetime the provider returns: the same instant.
to_datetime(at) == at

\* Lines 297-301: the DataFrame built from reviews_list.
DataFrame(reviews_list, app_name) ==
    [rows |-> [i \in DOMAIN reviews_list |->
                 [reviews_list[i] EXCEPT
                    !.review_date = to_datetime(reviews_list[i].review_date)]],
     app_name |-> app_name]

\* reviews_df.to_csv(filename): one row per review, the app_name column
\* included; the write fails when the directory does not exist.
CsvRows(reviews_df) ==
    [i \in DOMAIN reviews_df.rows |->
        [app_id        |-> reviews_df.rows[i].app_id,
         review_text   |-> reviews_df.rows[i].review_text,
         review_date   |-> reviews_df.rows[i].review_date,
         review_rating |-> reviews_df.rows[i].review_rating,
         app_name      |-> reviews_df.app_name]]

save_reviews_to_csv_Append(fs, ds, reviews_df, dir, app_id) ==
    IF reviews_df.rows = <<>> \/ dir \notin ds
    THEN fs
    ELSE MapPut(fs, <<dir, app_id>>,
                (IF <<dir, app_id>> \in DOMAIN fs THEN fs[<<dir, app_id>>]
                 ELSE <<>>) \o CsvRows(reviews_df))

\* save_reviews_to_csv (lines 12-20): the files afterwards.
save_reviews_to_csv(fs, ds, reviews_df, dir, app_id) ==
    IF reviews_df.rows = <<>>
    THEN fs
    ELSE IF dir \in ds
         THEN MapPut(fs, <<dir, app_id>>, CsvRows(reviews_df))
         ELSE fs

FileRows(fs, dir, app_id) ==
    IF <<dir, app_id>> \in DOMAIN fs THEN fs[<<dir, app_id>>] ELSE <<>>

-----------------------------------------------------------------------------
(* plotting.py, as far as the shell is concerned: what the axes show        *)

PlotTypes == {"cumulative", "rolling", "monthly"}

Blank == [kind |-> "blank", keys |-> {}, plot_type |-> "", label |-> ""]
NoData == [kind |-> "no_data", keys |-> {}, plot_type |-> "", label |-> ""]

\* create_plot (lines 23-84).
create_plot(key, reviews_df, plot_type, label) ==
    IF reviews_df.rows = <<>>
    THEN NoData
    ELSE [kind |-> "single", keys |-> {key}, plot_type |-> plot_type,
          label |-> label]

\* create_combined_plot (lines 100-173): one series per non-empty set.
create_combined_plot(all_reviews_data, plot_type) ==
    IF DOMAIN all_reviews_data = {}
    THEN NoData
    ELSE [kind |-> "combined",
          keys |-> {k \in DOMAIN all_reviews_data :
                      all_reviews_data[k].rows # <<>>},
          plot_type |-> plot_type, label |-> ""]

-----------------------------------------------------------------------------
(* gui.py: AppReviewGUI, the UI-thread handlers                             *)

Tids == 1..MaxThreads
Dirs == {"app_reviews", "out"}
CapInputs == {<<>>, <<"2">>, <<"x">>}

FreeThread ==
    [pc |-> "free", i |-> 0, app_id |-> "", app_name |-> "", max |-> None,
     reviews_list |-> <<>>, requested |-> FALSE, none_for |-> {},
     got |-> EmptyMap, exit |-> ""]

Alive(t) == threads[t].pc \notin {"free", "done"}

\* __init__ (lines 15-177); the directory the user can switch to exists,
\* the default one does not yet.
GuiInit ==
    /\ app_ids = <<>>
    /\ app_names = <<>>
    /\ all_app_data = EmptyMap
    /\ output_dir = "app_reviews"
    /\ tree = <<>>
    /\ combo_values = <<>>
    /\ combo_text = ""
    /\ max_entry = <<>>
    /\ fetch_button = "normal"
    /\ chart = Blank
    /\ threads = [t \in Tids |-> FreeThread]
    /\ polls = {}
    /\ dirs = {"out"}
    /\ files = EmptyMap
    /\ msg = <<>>
    /\ fetched = EmptyMap

\* update_single_app_combobox (lines 253-256).
ComboValues(ids, names) == [i \in DOMAIN ids |-> DictGet(names, ids[i])]

\* The body of the for loop of add_app_name (lines 221-236) for one name:
\* st = [ids, names, tree, msg].
AddOne(st, item) ==
    LET results == search_app(item.name, item.raised)
    IN  IF results # None
        THEN LET app_titles == [i \in DOMAIN results |-> results[i].title]
                 ids == [i \in DOMAIN results |-> results[i].appId]
                 selected_app_id == choose_app_id(app_titles, ids, item.pick)
             IN  IF selected_app_id # None
                    /\ ~InList(selected_app_id[1], st.ids)
                 THEN [st EXCEPT
                         !.ids = Append(@, selected_app_id[1]),
                         !.names = DictSet(@, selected_app_id[1], item.name),
                         !.tree = Append(@, <<selected_app_id[1], item.name>>)]
                 ELSE st
        ELSE [st EXCEPT !.msg = Append(@,
                 Box("showinfo", "No apps found", item.name))]

RECURSIVE AddLoop(_, _)
AddLoop(st, items) ==
    IF items = <<>> THEN st ELSE AddLoop(AddOne(st, Head(items)), Tail(items))

\* The body of add_app_name (lines 215-238); blank items are dropped by
\* line 217.
AddEffects(input) ==
    LET new_app_names == SelectSeq(input, LAMBDA it : it.name # "")
        st == AddLoop([ids |-> app_ids, names |-> app_names, tree |-> tree,
                       msg |-> <<>>], new_app_names)
    IN  /\ app_ids' = st.ids
        /\ app_names' = st.names
        /\ tree' = st.tree
        /\ msg' = st.msg
        /\ combo_values' = ComboValues(st.ids, st.names)
        /\ UNCHANGED <<all_app_data, output_dir, combo_text, max_entry,
                       fetch_button, chart, threads, polls, dirs,
                       files, fetched>>

\* add_app_name (lines 214-238) as a handler of the session.
add_app_name(input) == AddEffects(input) /\ UNCHANGED frame

\* remove_app_id (lines 240-251); sel is the selected tree row, 0 for none.
\* list.remove and del raise ValueError / KeyError, which line 250 does not
\* catch: the handler then stops where it is.
remove_app_id(sel) ==
    IF sel = 0
    THEN /\ msg' = <<Box("showwarning", "No App ID selected.", "")>>
         /\ UNCHANGED <<frame, app_ids, app_names, all_app_data, output_dir,
                        tree, combo_values, combo_text, max_entry,
                        fetch_button, chart, threads, polls, dirs,
                        files, fetched>>
    ELSE LET app_id_to_remove == tree[sel][1]
             listed == InList(app_id_to_remove, app_ids)
             named == app_id_to_remove \in DictKeys(app_names)
             ids == IF listed THEN ListRemove(app_ids, app_id_to_remove)
                    ELSE app_ids
             names == IF listed /\ named
                      THEN DictDel(app_names, app_id_to_remove) ELSE app_names
         IN  /\ tree' = DeleteAt(tree, sel)
             /\ app_ids' = ids
             /\ app_names' = names
             /\ combo_values' = IF listed /\ named
                                THEN ComboValues(ids, names) ELSE combo_values
             /\ msg' = <<>>
             /\ UNCHANGED <<frame, all_app_data, output_dir, combo_text,
                            max_entry, fetch_button, chart, threads,
                            polls, dirs, files, fetched>>

\* The user picks option i of the single-app combobox: the widget shows the
\* option's text, which is all single_app_combo.get() gives back.
SelectEffects(i) ==
    /\ combo_text' = combo_values[i]
    /\ msg' = <<>>
    /\ UNCHANGED <<app_ids, app_names, all_app_data, output_dir, tree,
                   combo_values, max_entry, fetch_button, chart,
                   threads, polls, dirs, files, fetched>>

select_single_app(i) == SelectEffects(i) /\ UNCHANGED frame

\* The user types into the max-reviews entry.
type_max_reviews(text) ==
    /\ max_entry' = text
    /\ msg' = <<>>
    /\ UNCHANGED <<frame, app_ids, app_names, all_app_data, output_dir, tree,
                   combo_values, combo_text, fetch_button, chart,
                   threads, polls, dirs, files, fetched>>

\* set_output_directory (lines 359-366); directory = "" when cancelled.
set_output_directory(directory) ==
    /\ output_dir' = IF directory # "" THEN directory ELSE output_dir
    /\ msg' = <<>>
    /\ UNCHANGED <<frame, app_ids, app_names, all_app_data, tree,
                   combo_values, combo_text, max_entry, fetch_button, chart, threads, polls, dirs, files, fetched>>

ButtonOnFetch_Enabled == "normal"

\* What line 259 sets the fetch button to.
ButtonOnFetch == "disabled"

\* The body of fetch_reviews (lines 258-264): the button's command, so it
\* runs only while the button is enabled; t is the new Thread object.
FetchEffects ==
    /\ fetch_button = "normal"
    /\ \E t \in Tids :
          /\ threads[t].pc = "free"
          /\ \A u \in 1..(t - 1) : threads[u].pc # "free"
          /\ threads' = [threads EXCEPT ![t] = [FreeThread EXCEPT !.pc = "start"]]
          /\ polls' = polls \cup {t}
    /\ fetch_button' = ButtonOnFetch
    /\ msg' = <<>>
    /\ UNCHANGED <<app_ids, app_names, all_app_data, output_dir, tree,
                   combo_values, combo_text, max_entry, chart, dirs,
                   files, fetched>>

\* fetch_reviews (lines 258-264) as a handler of the session.
fetch_reviews == FetchEffects /\ UNCHANGED frame

is_alive_Dead(t) == FALSE

\* The test of line 316.
is_alive(t) == Alive(t)

\* wait_for_thread (lines 315-319), the callback scheduled for thread t;
\* once it has found the thread dead nothing refers to the Thread object.
wait_for_thread(t) ==
    /\ t \in polls
    /\ msg' = <<>>
    /\ IF is_alive(t)
       THEN UNCHANGED <<fetch_button, polls, threads, fetched>>
       ELSE /\ fetch_button' = "normal"
            /\ polls' = polls \ {t}
            /\ threads' = [threads EXCEPT ![t] = FreeThread]
    /\ UNCHANGED <<frame, app_ids, app_names, all_app_data, output_dir, tree,
                   combo_values, combo_text, max_entry, chart, dirs,
                   files, fetched>>

\* Lines 327-334: the first key of app_names whose name is the selected one.
SelectedAppId(names, selected_app_name) ==
    IF \E i \in DOMAIN names : names[i].v = selected_app_name
    THEN Some(names[CHOOSE i \in DOMAIN names :
                      /\ names[i].v = selected_app_name
                      /\ \A h \in 1..(i - 1) : names[h].v # selected_app_name].k)
    ELSE None

\* visualize_single gets as far as reading self.all_app_data (line 335).
SingleReadsData ==
    combo_text # "" /\ SelectedAppId(app_names, combo_text) # None

\* visualize_single (lines 321-346).
visualize_single(plot_type) ==
    LET selected_app_id == SelectedAppId(app_names, combo_text)
    IN  /\ IF combo_text = ""
           THEN /\ msg' = <<Box("showwarning", "Select an app.", "")>>
                /\ chart' = chart
           ELSE IF selected_app_id = None
                   \/ selected_app_id[1] \notin DOMAIN all_app_data
                THEN /\ msg' = <<Box("showerror", "No data for", combo_text)>>
                     /\ chart' = chart
                ELSE /\ msg' = <<>>
                     /\ chart' = create_plot(selected_app_id[1],
                                     all_app_data[selected_app_id[1]],
                                     plot_type, combo_text)
        /\ UNCHANGED <<frame, app_ids, app_names, all_app_data, output_dir,
                       tree, combo_values, combo_text, max_entry,
                       fetch_button, threads, polls, dirs, files, fetched>>

TooFewSets_One(data) == Cardinality(DOMAIN data) < 1

\* The test of line 349.
TooFewSets(data) == Cardinality(DOMAIN data) < 2

\* visualize_combined (lines 348-357).
visualize_combined(plot_type) ==
    /\ IF TooFewSets(all_app_data)
       THEN /\ msg' = <<Box("showwarning",
                            "Fetch reviews for at least two apps.", "")>>
            /\ chart' = chart
       ELSE /\ msg' = <<>>
            /\ chart' = create_combined_plot(all_app_data, plot_type)
    /\ UNCHANGED <<frame, app_ids, app_names, all_app_data, output_dir, tree,
                   combo_values, combo_text, max_entry, fetch_button, threads, polls, dirs, files, fetched>>

-----------------------------------------------------------------------------
(* gui.py: _fetch_reviews_thread, one action per access to shared state     *)

Raises == UNION {[1..n -> BOOLEAN] : n \in 0..MaxRaises}

\* The Thread object once run() has ended; requested (a page request was
\* made), none_for (the ids that got no reviews) and got (the non-empty
\* sets get_app_reviews returned to this thread, by id) are history.
Exit(th, why) ==
    [FreeThread EXCEPT !.pc = "done", !.exit = why,
                       !.requested = th.requested, !.none_for = th.none_for,
                       !.got = th.got]

FreshData_Merge(data) == data

\* What line 267 assigns to self.all_app_data, data being its old value.
FreshData(data) == EmptyMap

\* Line 267.
W_reset(t) ==
    /\ threads[t].pc = "start"
    /\ all_app_data' = FreshData(all_app_data)
    /\ threads' = [threads EXCEPT ![t].pc = "check"]
    /\ msg' = <<>>
    /\ UNCHANGED <<frame, app_ids, app_names, output_dir, tree, combo_values,
                   combo_text, max_entry, fetch_button, chart, polls,
                   dirs, files, fetched>>

\* Lines 268-284.
W_check(t) ==
    /\ threads[t].pc = "check"
    /\ IF app_ids = <<>>
       THEN /\ msg' = <<Box("showwarning",
                            "Please add at least one App ID.", "")>>
            /\ threads' = [threads EXCEPT ![t] = Exit(@, "no_ids")]
            /\ dirs' = dirs
       ELSE LET m == MaxReviewsPerApp(max_entry)
            IN  IF m.err
                THEN /\ msg' = <<Box("showerror",
                                     "Invalid Max Reviews value.", "")>>
                     /\ threads' = [threads EXCEPT ![t] = Exit(@, "bad_cap")]
                     /\ dirs' = dirs
                ELSE /\ msg' = <<>>
                     /\ threads' = [threads EXCEPT ![t].pc = "next",
                                                   ![t].max = m.v]
                     /\ dirs' = dirs \cup {output_dir}
    /\ UNCHANGED <<frame, app_ids, app_names, all_app_data, output_dir, tree,
                   combo_values, combo_text, max_entry, fetch_button, chart, polls, files, fetched>>

\* Line 286: the list iterator's next; the thread ends once it is exhausted
\* (the status label texts of lines 288 and 313 are not modelled).
W_next(t) ==
    /\ threads[t].pc = "next"
    /\ msg' = <<>>
    /\ IF threads[t].i < Len(app_ids)
       THEN threads' = [threads EXCEPT ![t].pc = "lookup",
                                       ![t].i = @ + 1,
                                       ![t].app_id = app_ids[threads[t].i + 1]]
       ELSE threads' = [threads EXCEPT ![t] = Exit(@, "finished")]
    /\ UNCHANGED <<frame, app_ids, app_names, all_app_data, output_dir, tree,
                   combo_values, combo_text, max_entry, fetch_button, chart,
                   polls, dirs, files, fetched>>

\* Line 287; a KeyError ends the thread.
W_lookup(t) ==
    /\ threads[t].pc = "lookup"
    /\ msg' = <<>>
    /\ IF threads[t].app_id \in DictKeys(app_names)
       THEN threads' = [threads EXCEPT
                          ![t].pc = "fetch",
                          ![t].app_name = DictGet(app_names, threads[t].app_id)]
       ELSE threads' = [threads EXCEPT ![t] = Exit(@, "crashed")]
    /\ UNCHANGED <<frame, app_ids, app_names, all_app_data, output_dir, tree,
                   combo_values, combo_text, max_entry, fetch_button, chart,
                   polls, dirs, files, fetched>>

Retrieved_Always(reviews_list) == TRUE

\* Line 296: is the fetched list stored and saved?
Retrieved(reviews_list) == reviews_list # <<>>

\* Lines 293-295: get_app_reviews under the schedule raises.
CallEffects(t, raises) ==
    /\ threads[t].pc = "fetch"
    /\ threads' = [threads EXCEPT
          ![t].pc = "store",
          ![t].requested = TRUE,
          ![t].reviews_list =
              get_app_reviews(threads[t].app_id, threads[t].max, raises).result]
    /\ msg' = <<>>
    /\ UNCHANGED <<app_ids, app_names, all_app_data, output_dir, tree,
                   combo_values, combo_text, max_entry, fetch_button, chart,
                   polls, dirs, files, fetched>>

W_fetch(t, raises) == CallEffects(t, raises) /\ UNCHANGED frame

PcAfterNotice_Return == "done"

\* Where the worker goes on after the notice of lines 309-311: the for loop.
PcAfterNotice == "next"

\* Lines 296-311: the store and the save, or the notice.
W_store(t) ==
    /\ threads[t].pc = "store"
    /\ LET app_id == threads[t].app_id
           reviews_list == threads[t].reviews_list
           reviews_df == DataFrame(reviews_list, threads[t].app_name)
       IN  /\ IF Retrieved(reviews_list)
              THEN /\ all_app_data' = MapPut(all_app_data, app_id, reviews_df)
                   /\ files' = save_reviews_to_csv(files, dirs, reviews_df,
                                                   output_dir, app_id)
                   /\ msg' = <<>>
              ELSE /\ msg' = <<Box("showinfo", "No reviews retrieved for",
                                   app_id)>>
                   /\ UNCHANGED <<all_app_data, files>>
           /\ fetched' = IF reviews_list # <<>>
                         THEN MapPut(fetched, app_id, CsvRows(reviews_df))
                         ELSE fetched
           /\ threads' = [threads EXCEPT
                 ![t].pc = IF Retrieved(reviews_list)
                           THEN "next" ELSE PcAfterNotice,
                 ![t].app_id = "", ![t].app_name = "",
                 ![t].reviews_list = <<>>,
                 ![t].none_for = IF reviews_list = <<>>
                                 THEN @ \cup {app_id} ELSE @,
                 ![t].got = IF reviews_list = <<>> THEN @
                            ELSE MapPut(@, app_id,
                                     DataFrame(reviews_list,
                                               threads[t].app_name))]
    /\ UNCHANGED <<frame, app_ids, app_names, output_dir, tree, combo_values,
                   combo_text, max_entry, fetch_button, chart, polls, dirs>>

-----------------------------------------------------------------------------
(* Spec: the fetch session. Apps are added one name at a time and stay      *)
(* tracked, the output directory stays the default one; the tracking        *)
(* handlers with their full inputs are the subject of SpecTrack.            *)

SessionAdds == {<<Item("A", FALSE, 1)>>, <<Item("B", FALSE, 1)>>}

Init ==
    /\ GuiInit
    /\ frame = EnterFrame("com.a", None)

Next ==
    \/ \E input \in SessionAdds : add_app_name(input)
    \/ \E i \in DOMAIN combo_values : select_single_app(i)
    \/ \E text \in CapInputs : type_max_reviews(text)
    \/ fetch_reviews
    \/ \E t \in Tids : wait_for_thread(t)
    \/ \E p \in PlotTypes : visualize_single(p)
    \/ \E p \in PlotTypes : visualize_combined(p)
    \/ \E t \in Tids : W_reset(t)
    \/ \E t \in Tids : W_check(t)
    \/ \E t \in Tids : W_next(t)
    \/ \E t \in Tids : W_lookup(t)
    \/ \E t \in Tids, raises \in Raises : W_fetch(t, raises)
    \/ \E t \in Tids : W_store(t)

Spec == Init /\ [][Next]_vars

-----------------------------------------------------------------------------
(* SpecTrack: the UI-thread handlers of a session in which nothing is      *)
(* fetched, with their full inputs                                          *)

NextTrack ==
    \/ \E input \in AddInputs : add_app_name(input)
    \/ \E sel \in 0..Len(tree) : remove_app_id(sel)
    \/ \E i \in DOMAIN combo_values : select_single_app(i)
    \/ \E d \in Dirs \cup {""} : set_output_directory(d)

SpecTrack == Init /\ [][NextTrack]_vars

-----------------------------------------------------------------------------
(* SpecSession: fetches in a session in which apps are also removed. The   *)
(* Tk event loop runs every callback scheduled with after(), hence the     *)
(* weak fairness of the polling callback; nothing is assumed of the worker. *)

NextSession ==
    \/ \E input \in SessionAdds : add_app_name(input)
    \/ \E sel \in 0..Len(tree) : remove_app_id(sel)
    \/ \E text \in CapInputs : type_max_reviews(text)
    \/ fetch_reviews
    \/ \E t \in Tids : wait_for_thread(t)
    \/ \E p \in PlotTypes : visualize_combined(p)
    \/ \E t \in Tids : W_reset(t)
    \/ \E t \in Tids : W_check(t)
    \/ \E t \in Tids : W_next(t)
    \/ \E t \in Tids : W_lookup(t)
    \/ \E t \in Tids, raises \in Raises : W_fetch(t, raises)
    \/ \E t \in Tids : W_store(t)

SpecSession ==
    /\ Init
    /\ [][NextSession]_vars
    /\ \A t \in Tids : WF_vars(wait_for_thread(t))

-----------------------------------------------------------------------------
(* SpecSingle: sessions in which one search result or another is tracked    *)
(* under a name (and stays tracked), reviews are fetched and an option of   *)
(* the single-app combobox is picked; frame                                 *)
(* remembers the option picked and the app id listed at its position        *)
(* (update_single_app_combobox, lines 253-256, lists one option per id of   *)
(* app_ids, in order).                                                      *)

SingleAdds ==
    {<<Item("A", FALSE, 1)>>, <<Item("A", FALSE, 2)>>, <<Item("B", FALSE, 1)>>}

NoEntry == [entry |-> 0, app_id |-> ""]

InitSingle ==
    /\ GuiInit
    /\ frame = NoEntry

SelectEntry(i) ==
    /\ i \in DOMAIN app_ids
    /\ SelectEffects(i)
    /\ frame' = [entry |-> i, app_id |-> app_ids[i]]

NextSingle ==
    \/ \E input \in SingleAdds : add_app_name(input)
    \/ \E i \in DOMAIN combo_values : SelectEntry(i)
    \/ fetch_reviews
    \/ \E t \in Tids : wait_for_thread(t)
    \/ \E p \in PlotTypes : visualize_single(p)
    \/ \E t \in Tids : W_reset(t)
    \/ \E t \in Tids : W_check(t)
    \/ \E t \in Tids : W_next(t)
    \/ \E t \in Tids : W_lookup(t)
    \/ \E t \in Tids, raises \in Raises : W_fetch(t, raises)
    \/ \E t \in Tids : W_store(t)

SpecSingle == InitSingle /\ [][NextSingle]_vars

-----------------------------------------------------------------------------
(* SpecRace: one fetch action after another while apps are added and        *)
(* removed on the UI thread. frame is the record of the latest fetch        *)
(* action: the ids tracked and the mapping held when the button was         *)
(* clicked, and the ids get_app_reviews was called for since, in order.     *)

RaceCaps == {<<>>, <<"x">>}

NoAction == [tracked0 |-> {}, before |-> EmptyMap, calls |-> <<>>]

InitRace ==
    /\ GuiInit
    /\ frame = NoAction

FetchClick ==
    /\ FetchEffects
    /\ frame' = [tracked0 |-> {app_ids[i] : i \in DOMAIN app_ids},
                 before |-> all_app_data, calls |-> <<>>]

FetchCall(t, raises) ==
    /\ CallEffects(t, raises)
    /\ frame' = [frame EXCEPT !.calls = Append(@, threads[t].app_id)]

NextRace ==
    \/ \E input \in SessionAdds : add_app_name(input)
    \/ \E sel \in 0..Len(tree) : remove_app_id(sel)
    \/ \E text \in RaceCaps : type_max_reviews(text)
    \/ FetchClick
    \/ \E t \in Tids : wait_for_thread(t)
    \/ \E t \in Tids : W_reset(t)
    \/ \E t \in Tids : W_check(t)
    \/ \E t \in Tids : W_next(t)
    \/ \E t \in Tids : W_lookup(t)
    \/ \E t \in Tids, raises \in Raises : FetchCall(t, raises)
    \/ \E t \in Tids : W_store(t)

SpecRace == InitRace /\ [][NextRace]_vars

-----------------------------------------------------------------------------
(* plotting.py: the series create_plot and create_combined_plot hand to     *)
(* ax.plot. A value is the mean sum / n kept as the pair; n = 0 is NaN.     *)

Point(x, rows) ==
    [x |-> x,
     sum |-> LET RECURSIVE S(_)
                 S(r) == IF r = <<>> THEN 0
                         ELSE Head(r).review_rating + S(Tail(r))
             IN  S(rows),
     n |-> Len(rows)]

\* Dates, <<year, month, day>>, in chronological order.
DateLess(a, b) ==
    \/ a[1] < b[1]
    \/ a[1] = b[1] /\ a[2] < b[2]
    \/ a[1] = b[1] /\ a[2] = b[2] /\ a[3] < b[3]

\* sort_values("review_date") (lines 37, 119): the default sort is not
\* stable, so rows of equal date come out in any order; the orders it can
\* produce, as permutations of the row numbers.
Orders(rows) ==
    {o \in Permutations(DOMAIN rows) :
        \A i, j \in DOMAIN rows :
            i < j => ~DateLess(rows[o[j]].review_date, rows[o[i]].review_date)}

sort_values(rows, o) == [i \in DOMAIN rows |-> rows[o[i]]]

expanding_mean_Exclusive(df) ==
    [i \in DOMAIN df |-> Point(df[i].review_date, SubSeq(df, 1, i - 1))]

\* expanding().mean() plotted over review_date (lines 41-44).
expanding_mean(df) ==
    [i \in DOMAIN df |-> Point(df[i].review_date, SubSeq(df, 1, i))]

\* rolling(window=30, min_periods=1).mean() (lines 49-52): the last 30 rows.
rolling_mean(df) ==
    [i \in DOMAIN df |->
        Point(df[i].review_date,
              SubSeq(df, IF i > window THEN i - window + 1 ELSE 1, i))]

Bin_NoYear(date) == date[2] - 1

\* The calendar month a date falls in, as a month number.
Bin(date) == date[1] * 12 + (date[2] - 1)

\* resample("M", on="review_date")["review_rating"].mean().reset_index()
\* (lines 57-62): one point per calendar month from the first row's month
\* to the last row's, labelled <<year, month>>, NaN for a month without rows.
resample_mean(df) ==
    LET lo == Bin(df[1].review_date)
        hi == Bin(df[Len(df)].review_date)
    IN  [k \in 1..(hi - lo + 1) |->
            Point(<<(lo + k - 1) \div 12, ((lo + k - 1) % 12) + 1>>,
                  SelectSeq(df, LAMBDA r : Bin(r.review_date) = lo + k - 1))]

\* Lines 40-74 and 122-163: the series plotted for a sorted, non-empty df.
PlotSeries(df, plot_type) ==
    IF plot_type = "cumulative" THEN expanding_mean(df)
    ELSE IF plot_type = "rolling" THEN rolling_mean(df)
    ELSE IF plot_type = "monthly" THEN resample_mean(df)
    ELSE expanding_mean(df)

-----------------------------------------------------------------------------
(* SpecPlot: one call of create_plot or create_combined_plot on each input; *)
(* frame is the call and what it left on the axes.                          *)

PlotDates == {<<2024, 1, 5>>, <<2024, 1, 20>>, <<2024, 3, 2>>, <<2025, 1, 5>>}
PlotRatings == {1, 5}
PlotKinds == PlotTypes \cup {"", "weekly"}

PlotRow(date, rating) ==
    [app_id |-> "com.a", review_text |-> "", review_date |-> date,
     review_rating |-> rating]

\* The review sets create_plot is called on, the empty one included.
PlotSets ==
    UNION {[1..n -> {PlotRow(d, r) : d \in PlotDates, r \in PlotRatings}] :
              n \in 0..MaxRows}

\* The mappings create_combined_plot is called on: up to two apps, a set of
\* each kind (empty, within one month, over two years) for each.
CombinedSets ==
    LET some == {<<>>,
                 <<PlotRow(<<2024, 1, 20>>, 5), PlotRow(<<2024, 1, 5>>, 1)>>,
                 <<PlotRow(<<2025, 1, 5>>, 1), PlotRow(<<2024, 1, 5>>, 5),
                   PlotRow(<<2024, 3, 2>>, 5)>>}
    IN  UNION {[keys -> some] : keys \in SUBSET {"com.a", "com.b"}}

InitPlot ==
    /\ GuiInit
    /\ \/ \E rows \in PlotSets, plot_type \in PlotKinds :
             frame = [fn |-> "create_plot", pc |-> "call", rows |-> rows,
                      data |-> EmptyMap, plot_type |-> plot_type,
                      text |-> "", lines |-> EmptyMap]
       \/ \E data \in CombinedSets, plot_type \in PlotKinds :
             frame = [fn |-> "create_combined_plot", pc |-> "call",
                      rows |-> <<>>, data |-> data, plot_type |-> plot_type,
                      text |-> "", lines |-> EmptyMap]

\* create_plot (lines 23-84): the placeholder, or the one series.
CreatePlot ==
    /\ frame.pc = "call"
    /\ frame.fn = "create_plot"
    /\ IF frame.rows = <<>>
       THEN frame' = [frame EXCEPT !.pc = "returned",
                                   !.text = "No Data Available"]
       ELSE \E o \in Orders(frame.rows) :
               frame' = [frame EXCEPT
                  !.pc = "returned",
                  !.lines = MapPut(EmptyMap, "",
                               PlotSeries(sort_values(frame.rows, o),
                                          frame.plot_type))]
    /\ UNCHANGED gui_vars

\* create_combined_plot (lines 100-173): the placeholder, or one series per
\* non-empty set; ylabel is bound in the loop body only, so line 167 raises
\* UnboundLocalError when every set was skipped.
CreateCombinedPlot ==
    /\ frame.pc = "call"
    /\ frame.fn = "create_combined_plot"
    /\ LET data == frame.data
           drawn == {k \in DOMAIN data : data[k] # <<>>}
       IN  IF DOMAIN data = {}
           THEN frame' = [frame EXCEPT !.pc = "returned",
                                       !.text = "No Data Available"]
           ELSE IF drawn = {}
           THEN frame' = [frame EXCEPT !.pc = "raised",
                                       !.text = "UnboundLocalError"]
           ELSE \E o \in [drawn -> UNION {Orders(data[k]) : k \in drawn}] :
                   /\ \A k \in drawn : o[k] \in Orders(data[k])
                   /\ frame' = [frame EXCEPT
                         !.pc = "returned",
                         !.lines = [k \in drawn |->
                                       PlotSeries(sort_values(data[k], o[k]),
                                                  frame.plot_type)]]
    /\ UNCHANGED gui_vars

NextPlot == CreatePlot \/ CreateCombinedPlot

SpecPlot == InitPlot /\ [][NextPlot]_vars

-----------------------------------------------------------------------------
(* SpecAdd: one call of add_app_name, on each input, in a session in which  *)
(* apps are already tracked; frame is the call with the state it found.     *)

\* What is tracked when the call is made: the outcome of an earlier input.
Priors ==
    {<<>>, <<Item("A", FALSE, 1)>>, <<Item("A", FALSE, 2)>>,
     <<Item("B", FALSE, 1)>>, <<Item("A", FALSE, 1), Item("B", FALSE, 1)>>}

InitAdd ==
    \E prior \in Priors, input \in AddInputs :
        LET st == AddLoop([ids |-> <<>>, names |-> <<>>, tree |-> <<>>,
                           msg |-> <<>>], prior)
        IN  /\ app_ids = st.ids
            /\ app_names = st.names
            /\ tree = st.tree
            /\ combo_values = ComboValues(st.ids, st.names)
            /\ frame = [pc |-> "call", input |-> input, before |-> st]
            /\ all_app_data = EmptyMap
            /\ output_dir = "app_reviews"
            /\ combo_text = ""
            /\ max_entry = <<>>
            /\ fetch_button = "normal"
            /\ chart = Blank
            /\ threads = [t \in Tids |-> FreeThread]
            /\ polls = {}
            /\ dirs = {"out"}
            /\ files = EmptyMap
            /\ msg = <<>>
            /\ fetched = EmptyMap

AddCall ==
    /\ frame.pc = "call"
    /\ AddEffects(frame.input)
    /\ frame' = [frame EXCEPT !.pc = "returned"]

NextAdd == AddCall

SpecAdd == InitAdd /\ [][NextAdd]_vars

-----------------------------------------------------------------------------
(* SpecScraper: one call of get_app_reviews, a page request at a time       *)

Caps == {None} \cup {Some(c) : c \in 0..MaxCap}

InitScraper ==
    /\ GuiInit
    /\ \E app_id \in Apps, max_reviews \in Caps :
          frame = EnterFrame(app_id, max_reviews)

\* reviews() returns a page (lines 54-81).
ReviewsReturns ==
    /\ frame.pc = "call"
    /\ frame' = PageStep(frame)
    /\ UNCHANGED gui_vars

\* reviews() raises (lines 83-88).
ReviewsRaises ==
    /\ frame.pc = "call"
    /\ frame' = ExceptStep(frame)
    /\ UNCHANGED gui_vars

NextScraper == ReviewsReturns \/ ReviewsRaises

SpecScraper == InitScraper /\ [][NextScraper]_vars

\* All the provider's reviews for an app, normalized, in provider order.
RECURSIVE Flatten(_)
Flatten(pages) ==
    IF pages = <<>> THEN <<>> ELSE Head(pages) \o Flatten(Tail(pages))
AllReviews(app_id) ==
    LET raw == Flatten(Provider(app_id))
    IN  [i \in DOMAIN raw |-> Review(app_id, raw[i])]

-----------------------------------------------------------------------------
(* C1: when the first two attempts raise and the third succeeds, the third  *)
(* attempt starts with an empty record list, a zero count and no            *)
(* continuation token, and the result is what a failure-free call fetches   *)
(* from the first page on.                                                  *)
C1_RetryFromScratch ==
    (frame.pc = "returned" /\ frame.failed = 2) =>
        /\ frame.starts[3] = [all_reviews |-> <<>>, review_count |-> 0,
                              continuation_token |-> NoToken]
        /\ frame.result =
               get_app_reviews(frame.app_id, frame.max_reviews, <<>>).result

(* C2: with a cap C and at least C reviews available, a call without        *)
(* failures returns exactly the first C records in provider order, C = 0    *)
(* included.                                                                *)
C2_ExactlyCap ==
    (/\ frame.pc = "returned"
     /\ frame.failed = 0
     /\ frame.max_reviews # None
     /\ Len(AllReviews(frame.app_id)) >= frame.max_reviews[1]) =>
        frame.result = SubSeq(AllReviews(frame.app_id), 1, frame.max_reviews[1])

(* C3: at most 3 attempts are made; once the third has raised the call has  *)
(* returned the empty list, whatever had been accumulated, and no further   *)
(* page request is issued.                                                  *)
C3_Exhausted ==
    /\ [](/\ frame.failed <= retries
          /\ frame.attempt < retries
          /\ frame.failed = retries =>
                (frame.pc = "returned" /\ frame.result = <<>>))
    /\ [][frame.failed = retries => frame'.requests = frame.requests]_vars

C3_Witness ==
    /\ frame.pc = "returned"
    /\ frame.failed = retries
    /\ frame.all_reviews # <<>>
    /\ frame.result = <<>>

-----------------------------------------------------------------------------
(* C4: at most one fetch worker is alive at any time, and the fetch button  *)
(* is disabled for as long as the worker a fetch_reviews started is alive.  *)
C4_OneWorker ==
    /\ Cardinality({t \in Tids : is_alive(t)}) <= 1
    /\ (\E t \in Tids : is_alive(t)) => fetch_button = "disabled"

\* The worker of a later fetch is at its first app, the files of an earlier
\* fetch being on disk.
C4_Witness ==
    /\ \E t \in Tids : threads[t].pc = "store" /\ threads[t].i = 1
    /\ fetch_button = "disabled"
    /\ DOMAIN files # {}
    /\ all_app_data = EmptyMap

\* The worker has reset the mapping and has not ended.
Mutating(t) ==
    threads[t].pc \in {"check", "next", "lookup", "fetch", "store"}

(* C5: between a worker's reset of the mapping and its end, no UI action    *)
(* that reads the mapping (visualize_single, visualize_combined) executes.  *)
C5_NoReadWhileFetching ==
    [][(\E t \in Tids : Mutating(t)) =>
          ~(\/ SingleReadsData /\ \E p \in PlotTypes : visualize_single(p)
            \/ \E p \in PlotTypes : visualize_combined(p))]_vars

\* The rows of the set thread t has fetched and is about to store.
FetchedRows(t) ==
    CsvRows(DataFrame(threads[t].reviews_list, threads[t].app_name))

(* C6, as claimed: after every fetch of an app id, a fetch that returns no  *)
(* reviews included, the rows of its file are exactly the set just fetched. *)
C6_FileIsLastFetch ==
    [][\A t \in Tids :
          W_store(t) =>
              FileRows(files', output_dir, threads[t].app_id)
                  = FetchedRows(t)]_vars

(* C6, amended: the rows of <app_id>_reviews.csv are exactly the most       *)
(* recent non-empty set fetched for that id, nothing merged in from an      *)
(* earlier fetch; there is no file for an id no reviews were ever fetched   *)
(* for.                                                                     *)
C6_FileIsLastNonEmptyFetch ==
    /\ \A app_id \in DOMAIN fetched :
          FileRows(files, output_dir, app_id) = fetched[app_id]
    /\ \A key \in DOMAIN files :
          key[1] = output_dir /\ key[2] \in DOMAIN fetched

\* com.a was fetched in full, then with the cap 2; a later fetch got no
\* reviews for it and the file keeps the two rows.
C6_Witness ==
    /\ \E t \in Tids : "com.a" \in threads[t].none_for
    /\ Len(FileRows(files, output_dir, "com.a")) = 2
    /\ "com.a" \notin DOMAIN all_app_data

-----------------------------------------------------------------------------
(* C7: remove_app_id on a selected row removes its id from app_ids and from *)
(* app_names, and the combobox options then are the names of the remaining  *)
(* ids in list order; without a selection it warns and changes nothing.     *)
C7_Remove ==
    [][\A sel \in 0..Len(tree) :
          remove_app_id(sel) =>
              IF sel = 0
              THEN /\ msg' = <<Box("showwarning", "No App ID selected.", "")>>
                   /\ UNCHANGED <<app_ids, app_names, tree, combo_values,
                                  combo_text, all_app_data, chart, files>>
              ELSE /\ InList(tree[sel][1], app_ids)
                   /\ ~InList(tree[sel][1], app_ids')
                   /\ tree[sel][1] \notin DictKeys(app_names')
                   /\ app_ids' = SelectSeq(app_ids,
                                     LAMBDA x : x # tree[sel][1])
                   /\ DictKeys(app_names') = {app_ids'[i] : i \in DOMAIN app_ids'}
                   /\ combo_values' =
                          [i \in DOMAIN app_ids' |->
                              DictGet(app_names', app_ids'[i])]]_vars

\* The name selected in the combobox is no longer among its options, while
\* another app is still tracked: its app was removed.
C7_Witness ==
    /\ combo_text # ""
    /\ ~InList(combo_text, combo_values)
    /\ Len(app_ids) = 1
    /\ combo_values = <<DictGet(app_names, app_ids[1])>>

-----------------------------------------------------------------------------
(* C11: once a fetch action has completed, the mapping holds exactly one    *)
(* entry per app id for which that action fetched at least one review, the  *)
(* entry being the set that action fetched; nothing of an earlier fetch     *)
(* action is left in it.                                                    *)
C11_ReplacedWholesale ==
    \A t \in Tids :
        threads[t].pc = "done" => all_app_data = threads[t].got

\* A fetch action that got nothing for com.a has completed after an earlier
\* one had stored and saved com.a's reviews: the mapping is empty.
C11_Witness ==
    /\ \E t \in Tids : /\ threads[t].pc = "done"
                        /\ threads[t].exit = "finished"
                        /\ "com.a" \in threads[t].none_for
    /\ <<output_dir, "com.a">> \in DOMAIN files
    /\ all_app_data = EmptyMap

(* C12: once the worker a fetch_reviews started has ended, normally, by an  *)
(* early return or by an uncaught exception, the polling callback           *)
(* eventually re-enables the fetch button; the button is never enabled      *)
(* while a worker is alive, and a poll that finds the worker alive leaves   *)
(* it disabled.                                                             *)
C12_PollReenables ==
    /\ \A t \in Tids :
          (threads[t].pc = "done") ~> (fetch_button = "normal")
    /\ [](fetch_button = "normal" => \A t \in Tids : ~Alive(t))
    /\ [][\A t \in Tids :
             (wait_for_thread(t) /\ Alive(t)) =>
                 (fetch_button' = "disabled" /\ t \in polls')]_vars

\* The worker has died of the KeyError of line 287 after a page request;
\* its poll is pending and the button still disabled.
C12_Witness ==
    \E t \in Tids :
        /\ threads[t].pc = "done"
        /\ threads[t].exit = "crashed"
        /\ threads[t].requested
        /\ t \in polls
        /\ fetch_button = "disabled"

-----------------------------------------------------------------------------
NonEmptySets == {k \in DOMAIN all_app_data : all_app_data[k].rows # <<>>}

(* C8: every set stored in the mapping is non-empty, and visualize_combined *)
(* with fewer than two non-empty sets held shows the warning and leaves the *)
(* chart as it is.                                                          *)
C8_CombinedNeedsTwo ==
    /\ [](NonEmptySets = DOMAIN all_app_data)
    /\ [][\A p \in PlotTypes :
             (visualize_combined(p) /\ Cardinality(NonEmptySets) < 2) =>
                 /\ chart' = chart
                 /\ msg' = <<Box("showwarning",
                                 "Fetch reviews for at least two apps.", "")>>]_vars

\* The warning was shown with one set held and a plot on the chart.
C8_Witness ==
    /\ msg = <<Box("showwarning", "Fetch reviews for at least two apps.", "")>>
    /\ Cardinality(DOMAIN all_app_data) = 1
    /\ chart.kind = "single"

-----------------------------------------------------------------------------
\* visualize_single is at an app without an entry in the mapping.
SingleWithoutData ==
    /\ SingleReadsData
    /\ SelectedAppId(app_names, combo_text)[1] \notin DOMAIN all_app_data

(* C9, as claimed: visualize_single for an app whose fetch got no reviews   *)
(* draws the "No Data Available" placeholder.                               *)
C9_PlaceholderDrawn ==
    [][\A p \in PlotTypes :
          (/\ visualize_single(p)
           /\ SingleReadsData
           /\ \E t \in Tids :
                 SelectedAppId(app_names, combo_text)[1]
                     \in threads[t].none_for) =>
              chart' = NoData]_vars

(* C9, amended: a fetch that gets no reviews for an app writes no file and  *)
(* stores no entry for it; visualize_single, when the selected name         *)
(* resolves to an app without an entry, shows the error "No data for" and   *)
(* leaves the chart as it is, placeholder or not.                           *)
C9_NoFileNoEntryNoPlot ==
    /\ [][\A t \in Tids :
             (W_store(t) /\ threads[t].reviews_list = <<>>) =>
                 /\ files' = files
                 /\ all_app_data' = all_app_data
                 /\ threads[t].app_id \in threads'[t].none_for]_vars
    /\ [][\A p \in PlotTypes :
             (visualize_single(p) /\ SingleWithoutData) =>
                 /\ chart' = chart
                 /\ msg' = <<Box("showerror", "No data for", combo_text)>>]_vars

\* The error was shown for com.a, whose fetch got no reviews, and the plot
\* drawn earlier is still on the chart.
C9_Witness ==
    /\ msg = <<Box("showerror", "No data for", "A")>>
    /\ \E t \in Tids : "com.a" \in threads[t].none_for
    /\ "com.a" \notin DOMAIN all_app_data
    /\ <<output_dir, "com.a">> \notin DOMAIN files
    /\ chart.kind = "single"

-----------------------------------------------------------------------------
InvalidBox == <<Box("showerror", "Invalid Max Reviews value.", "")>>
NoIdsBox == <<Box("showwarning", "Please add at least one App ID.", "")>>

\* The cap entry holds text that int() rejects.
InvalidCap == max_entry # <<>> /\ int(max_entry).err

\* The worker ends at line 272 or 281: nothing requested, created, written.
Aborted(t) ==
    /\ threads'[t].pc = "done"
    /\ ~threads'[t].requested
    /\ dirs' = dirs
    /\ files' = files
    /\ t \in polls'

(* C10, as claimed: whenever the cap entry is non-empty and not an integer, *)
(* the worker reports the error and ends without a page request and without *)
(* creating or writing anything.                                            *)
C10_InvalidCapReported ==
    [][\A t \in Tids :
          (W_check(t) /\ InvalidCap) =>
              (msg' = InvalidBox /\ Aborted(t))]_vars

(* C10, amended: with an invalid cap entry the worker ends without a page   *)
(* request and without creating or writing anything, and the pending poll   *)
(* then re-enables the fetch button; it reports the error when an app id is *)
(* tracked, and the "add at least one App ID" warning when none is.         *)
C10_InvalidCapAborts ==
    /\ [](\A t \in Tids : threads[t].pc = "done" => t \in polls)
    /\ [][\A t \in Tids :
             (W_check(t) /\ InvalidCap) =>
                 /\ Aborted(t)
                 /\ msg' = IF app_ids # <<>> THEN InvalidBox ELSE NoIdsBox]_vars
    /\ [][\A t \in Tids :
             (wait_for_thread(t) /\ threads[t].pc = "done") =>
                 fetch_button' = "normal"]_vars

\* The error was shown for a tracked app; what an earlier fetch had saved
\* is still on disk.
C10_Witness ==
    /\ msg = InvalidBox
    /\ \E t \in Tids : threads[t].exit = "bad_cap" /\ ~threads[t].requested
    /\ app_ids # <<>>
    /\ DOMAIN files # {}

-----------------------------------------------------------------------------
Tracked == {app_ids[i] : i \in DOMAIN app_ids}

(* C20: whenever no fetch is running every key of the review-set mapping is *)
(* a tracked app id, and visualize_combined draws series of tracked apps    *)
(* only.                                                                    *)
C20_KeysTracked ==
    /\ []((\A t \in Tids : ~Alive(t)) => DOMAIN all_app_data \subseteq Tracked)
    /\ [][\A p \in PlotTypes :
             (visualize_combined(p) /\ chart'.kind = "combined") =>
                 chart'.keys \subseteq Tracked]_vars

-----------------------------------------------------------------------------
(* C17: an app whose fetch comes back empty, its attempts exhausted, gets   *)
(* the notice, no mapping entry and no file write, and the worker goes on:  *)
(* when it finishes, every tracked app id has been fetched, and every id    *)
(* it got reviews for has its entry and its file, whatever failed before.   *)
C17_FailureSkipsApp ==
    /\ [][\A t \in Tids :
             (W_store(t) /\ threads[t].reviews_list = <<>>) =>
                 /\ msg' = <<Box("showinfo", "No reviews retrieved for",
                                 threads[t].app_id)>>
                 /\ all_app_data' = all_app_data
                 /\ files' = files
                 /\ Alive(t)']_vars
    /\ [][\A t \in Tids :
             (W_next(t) /\ ~Alive(t)') =>
                 /\ threads'[t].exit = "finished"
                 /\ Tracked \subseteq
                        DOMAIN threads[t].got \cup threads[t].none_for
                 /\ \A id \in DOMAIN threads[t].got :
                       /\ id \in DOMAIN all_app_data
                       /\ all_app_data[id] = threads[t].got[id]
                       /\ FileRows(files, output_dir, id)
                              = CsvRows(threads[t].got[id])]_vars
    /\ [](\A t \in Tids :
             (threads[t].pc = "done" /\ threads[t].none_for # {}) =>
                 threads[t].exit = "finished")

\* com.a, first in the list, got no reviews; the worker has finished and
\* com.b, after it, is stored and saved.
C17_Witness ==
    /\ app_ids = <<"com.a", "com.b">>
    /\ \E t \in Tids : /\ threads[t].exit = "finished"
                        /\ threads[t].none_for = {"com.a"}
    /\ DOMAIN all_app_data = {"com.b"}
    /\ FileRows(files, output_dir, "com.b") # <<>>

-----------------------------------------------------------------------------
(* C18: without a cap and without an exception, against a chain of N pages  *)
(* the call returns after exactly N page requests, the first without a      *)
(* token and each later one with the token the page before returned, and    *)
(* its result is one normalized record per provider review, the pages in    *)
(* order; a request is the last one exactly when its page's token is null.  *)
C18_FollowsChain ==
    /\ [](( /\ frame.pc = "returned"
            /\ frame.failed = 0
            /\ frame.max_reviews = None) =>
              LET raw == Flatten(Provider(frame.app_id))
              IN  /\ frame.requests = Len(Provider(frame.app_id))
                  /\ Len(frame.sent) = frame.requests
                  /\ frame.sent[1] = NoToken
                  /\ \A k \in 2..Len(frame.sent) :
                        frame.sent[k] =
                            reviews(frame.app_id, frame.sent[k - 1])[2]
                  /\ frame.result =
                        [i \in DOMAIN raw |->
                            [app_id        |-> frame.app_id,
                             review_text   |-> raw[i].content,
                             review_date   |-> raw[i].at,
                             review_rating |-> raw[i].score]])
    /\ [][(ReviewsReturns /\ frame.failed = 0 /\ frame.max_reviews = None) =>
             (frame'.pc = "returned" <=>
                 frame'.continuation_token = Token(0))]_vars

\* The three pages of com.d were fetched with three requests.
C18_Witness ==
    /\ frame.pc = "returned"
    /\ frame.app_id = "com.d"
    /\ frame.max_reviews = None
    /\ frame.failed = 0
    /\ frame.requests = 3
    /\ Len(frame.result) = 4

-----------------------------------------------------------------------------
\* The names of input that line 217 keeps.
Kept(input) == SelectSeq(input, LAMBDA it : it.name # "")

\* The notices add_app_name owes for the names of items: one per name whose
\* search raised or found nothing, in input order.
RECURSIVE NotFoundBoxes(_)
NotFoundBoxes(items) ==
    IF items = <<>> THEN <<>>
    ELSE (IF Head(items).raised \/ search(Head(items).name) = <<>>
          THEN <<Box("showinfo", "No apps found", Head(items).name)>>
          ELSE <<>>) \o NotFoundBoxes(Tail(items))

(* C16: search_app yields the absent result both when the search raises     *)
(* and when it finds nothing; add_app_name then reports each such name as   *)
(* not found, adds nothing for it, and processes the remaining names: what  *)
(* it adds is what the input without the failed names adds.                 *)
C16_SearchErrorSkipsName ==
    frame.pc = "returned" =>
        LET rest == SelectSeq(Kept(frame.input), LAMBDA it : ~it.raised)
            st == AddLoop([frame.before EXCEPT !.msg = <<>>], rest)
        IN  /\ msg = NotFoundBoxes(Kept(frame.input))
            /\ app_ids = st.ids
            /\ app_names = st.names
            /\ tree = st.tree
            /\ combo_values =
                  [i \in DOMAIN st.ids |-> DictGet(st.names, st.ids[i])]

\* The search for "A" raised and "B", after it in the same input, was added
\* to the app tracked before.
C16_Witness ==
    /\ frame.pc = "returned"
    /\ frame.input = <<Item("A", TRUE, 0), Item("B", FALSE, 1)>>
    /\ msg = <<Box("showinfo", "No apps found", "A")>>
    /\ app_ids = <<"com.a", "com.b">>
    /\ combo_values = <<"A", "B">>

-----------------------------------------------------------------------------
(* C19: the tracked id list has no duplicate, the keys of the id-to-name    *)
(* map are the listed ids, and the combobox options are the names of the    *)
(* listed ids in list order.                                                *)
C19_TrackingConsistent ==
    /\ \A i, j \in DOMAIN app_ids : app_ids[i] = app_ids[j] => i = j
    /\ {app_names[i].k : i \in DOMAIN app_names} = Tracked
    /\ Len(app_names) = Len(app_ids)
    /\ Len(combo_values) = Len(app_ids)
    /\ \A i \in DOMAIN app_ids :
          \E j \in DOMAIN app_names :
              app_names[j].k = app_ids[i] /\ combo_values[i] = app_names[j].v

\* com.b was tracked as "B", selected, removed and added again as "A",
\* then com.a was added under the same name.
C19_Witness ==
    /\ app_ids = <<"com.b", "com.a">>
    /\ combo_values = <<"A", "A">>
    /\ combo_text = "B"
    /\ Len(tree) = 2

-----------------------------------------------------------------------------
\* The review set a plotted line was computed from.
PlottedRows(k) ==
    IF frame.fn = "create_plot" THEN frame.rows ELSE frame.data[k]

\* The sum of the ratings of the rows numbered in idx.
RECURSIVE RatingSum(_, _)
RatingSum(rows, idx) ==
    IF idx = {} THEN 0
    ELSE LET i == CHOOSE i \in idx : TRUE
         IN  rows[i].review_rating + RatingSum(rows, idx \ {i})

(* C13: for a non-empty review set in any order, the cumulative series of   *)
(* create_plot has one point per record, dates ascending, and its last      *)
(* value is the mean of all ratings: last value times the number of records *)
(* equals the sum of the ratings.                                           *)
C13_CumulativeEndsAtMean ==
    ( /\ frame.pc = "returned"
      /\ frame.fn = "create_plot"
      /\ frame.plot_type = "cumulative"
      /\ frame.rows # <<>> ) =>
        LET line == frame.lines[""]
            last == line[Len(line)]
        IN  /\ Len(line) = Len(frame.rows)
            /\ \A i, j \in DOMAIN line : i < j => ~DateLess(line[j].x, line[i].x)
            /\ last.n > 0
            /\ last.sum * Len(frame.rows)
                  = RatingSum(frame.rows, DOMAIN frame.rows) * last.n

\* Three records handed over newest first, ratings 5, 1, 5: the last value
\* is 11/3.
C13_Witness ==
    /\ frame.pc = "returned"
    /\ frame.fn = "create_plot"
    /\ frame.plot_type = "cumulative"
    /\ frame.rows = <<PlotRow(<<2025, 1, 5>>, 5), PlotRow(<<2024, 3, 2>>, 1),
                      PlotRow(<<2024, 1, 5>>, 5)>>
    /\ frame.lines[""][3] = [x |-> <<2025, 1, 5>>, sum |-> 11, n |-> 3]

(* C14: every line of the monthly series has one point per calendar month,  *)
(* year and month; each record's month has its point, and a point's value   *)
(* is the mean of exactly the ratings dated in that month, whatever the     *)
(* day (NaN for a month without records).                                   *)
C14_MonthlyGroupsByMonth ==
    (frame.pc = "returned" /\ frame.plot_type = "monthly") =>
        \A k \in DOMAIN frame.lines :
            LET rows == PlottedRows(k)
                line == frame.lines[k]
                In(x) == {r \in DOMAIN rows :
                             /\ rows[r].review_date[1] = x[1]
                             /\ rows[r].review_date[2] = x[2]}
            IN  /\ \A i, j \in DOMAIN line : line[i].x = line[j].x => i = j
                /\ \A r \in DOMAIN rows : \E i \in DOMAIN line : r \in In(line[i].x)
                /\ \A i \in DOMAIN line :
                      /\ line[i].n = Cardinality(In(line[i].x))
                      /\ line[i].sum = RatingSum(rows, In(line[i].x))

\* Two records of January 2024, days 20 and 5, share one point, and the
\* record of January 2025 has another one, twelve months later.
C14_Witness ==
    /\ frame.pc = "returned"
    /\ frame.fn = "create_plot"
    /\ frame.plot_type = "monthly"
    /\ frame.rows = <<PlotRow(<<2024, 1, 20>>, 5), PlotRow(<<2025, 1, 5>>, 1),
                      PlotRow(<<2024, 1, 5>>, 1)>>
    /\ Len(frame.lines[""]) = 13
    /\ frame.lines[""][1] = [x |-> <<2024, 1>>, sum |-> 6, n |-> 2]
    /\ frame.lines[""][13] = [x |-> <<2025, 1>>, sum |-> 1, n |-> 1]

(* C15: for a plot kind other than "cumulative", "rolling" and "monthly",   *)
(* create_plot and create_combined_plot raise no error and plot, for every  *)
(* non-empty set, the cumulative series of its date-sorted records.         *)
C15_FallsBackToCumulative ==
    (frame.pc # "call" /\ frame.plot_type \notin PlotTypes) =>
        /\ frame.pc = "returned"
        /\ DOMAIN frame.lines =
              IF frame.fn = "create_plot"
              THEN IF frame.rows = <<>> THEN {} ELSE {""}
              ELSE {k \in DOMAIN frame.data : frame.data[k] # <<>>}
        /\ \A k \in DOMAIN frame.lines :
              \E o \in Orders(PlottedRows(k)) :
                  frame.lines[k] =
                      [i \in DOMAIN PlottedRows(k) |->
                          Point(PlottedRows(k)[o[i]].review_date,
                                [j \in 1..i |-> PlottedRows(k)[o[j]]])]

-----------------------------------------------------------------------------
\* The option picked in the single-app combobox is still the one shown and
\* still stands for the same tracked app id.
EntrySelected ==
    /\ frame.entry \in DOMAIN app_ids
    /\ app_ids[frame.entry] = frame.app_id
    /\ combo_values[frame.entry] = combo_text

(* C21: visualize_single plots the review set of the tracked app id whose   *)
(* option is selected in the single-app combobox (and reports that there is *)
(* no data only when that id has no review set), also when two tracked ids  *)
(* were added under the same name.                                          *)
C21_PlotsSelectedEntry ==
    [][\A p \in PlotTypes :
          (EntrySelected /\ visualize_single(p)) =>
              IF frame.app_id \in DOMAIN all_app_data
              THEN chart' = create_plot(frame.app_id,
                                        all_app_data[frame.app_id],
                                        p, combo_text)
              ELSE chart' = chart /\ msg' # <<>>]_vars

-----------------------------------------------------------------------------
\* How many times get_app_reviews was called for app_id in the latest fetch
\* action.
Calls(app_id) ==
    Cardinality({j \in DOMAIN frame.calls : frame.calls[j] = app_id})

\* The step in which the worker t, past its checks, ends.
WorkerEnds(t) ==
    /\ threads[t].pc \in {"next", "lookup"}
    /\ threads'[t].pc = "done"

(* C22: however add_app_name and remove_app_id interleave with a running    *)
(* fetch worker, the worker ends without an error and has then called       *)
(* get_app_reviews exactly once for every app id that was tracked when the  *)
(* fetch was started and is still tracked.                                  *)
C22_FetchesEachOnce ==
    [][\A t \in Tids :
          WorkerEnds(t) =>
              /\ threads'[t].exit = "finished"
              /\ \A app_id \in frame.tracked0 \cap Tracked :
                    Calls(app_id) = 1]_vars

-----------------------------------------------------------------------------
(* C23: once a fetch action has been aborted before any review request,     *)
(* for an invalid cap or for want of a tracked id, the review-set mapping   *)
(* is the one held when the action was started: the sets fetched earlier    *)
(* are still there.                                                         *)
C23_AbortKeepsData ==
    \A t \in Tids :
        (threads[t].pc = "done" /\ threads[t].exit \in {"no_ids", "bad_cap"}) =>
            all_app_data = frame.before

====
